---------------------------- MODULE Spec2Model ----------------------------
(***************************************************************************)
(* Multi-tenancy layer of wagtail (fork engAmirEng/wagtail):               *)
(*   wagtail/models/sites.py   Site, get_site_for_hostname, SiteUser       *)
(*   wagtail/sites/utils.py    set_current_session_project                 *)
(*   wagtail/sites/views.py    site_workon_view                            *)
(*   wagtail/sites/middleware.py  SiteUserMiddleware                       *)
(*                                                                         *)
(* The store (tables Site and SiteUser), the session, the request object   *)
(* with the attributes the code attaches to it, and the module globals     *)
(* are the state.  Model instances are snapshots of a row taken when the   *)
(* row was loaded, with an object identity (oid) of their own.             *)
(***************************************************************************)
EXTENDS Integers, Sequences, FiniteSets, TLC

(***************************************************************************)
(* Bounds of the model.                                                    *)
(***************************************************************************)
MaxSites == 2
MaxSiteUsers == 3
MaxLookups == 2

(***************************************************************************)
(* Values.                                                                 *)
(***************************************************************************)
Hostnames == {"example.com", "EXAMPLE.com", "other.org"}
Ports == {80, 8000, 9999}
UrlPaths == {"/", "/home/"}
Users == {"u1", "u2"}
Requests == {"r1"}
SiteIds == 1..MaxSites

\* Python's None where an id or a port is expected; `not site_id` holds of it
NoId == 0

\* str.lower() on the hostnames of the model
Lower(h) == IF h = "EXAMPLE.com" THEN "example.com" ELSE h

MATCH_HOSTNAME_PORT == 0
MATCH_HOSTNAME == 1

VARIABLES
    sites,           \* table Site: rows [id, hostname, port, url_path]
    nextSiteId,      \* autoincrement of Site.id
    siteUsers,       \* table SiteUser: rows [id, site_id, user, is_active, is_superuser]
    nextSiteUserId,  \* autoincrement of SiteUser.id
    session,         \* session["site_id"] of each user's browser session
    sessionBy,       \* what wrote it: "default" (identity resolution) or "switch"
    req,             \* the request objects
    modelsSiteUser,  \* global SiteUser of wagtail.models.sites
    viewsSiteUser,   \* name SiteUser of wagtail.sites.views, bound at import
    rootPathsCache,  \* cache entry SITE_ROOT_PATHS_CACHE_KEY
    prevPaths,       \* the first call of get_site_root_paths since the cache key
                     \* was last deleted (of the tenant asked last)
    lookup,          \* the last direct call of get_site_for_hostname
    rootPaths,       \* the last call of get_site_root_paths
    backends,        \* auth.get_backends(): the registered backends, in order
    userPerms,       \* SiteUser.site_user_permissions: identity id -> permissions
    groupPerms,      \* SiteGroup.permissions: group -> permissions
    memberships,     \* SiteUser.groups: identity id -> groups
    inst,            \* a SiteUser instance with its permission caches
    userObj,         \* the user object carrying SitePermissionsMonkeyPatchMixin
    call,            \* the last permission call: arguments and outcome
    tx               \* the transaction of a Site.save() in progress

vars == <<sites, nextSiteId, siteUsers, nextSiteUserId, session, sessionBy, req,
          modelsSiteUser, viewsSiteUser, rootPathsCache, prevPaths, lookup,
          rootPaths,
          backends, userPerms, groupPerms, memberships, inst, userObj, call, tx>>

storeVars == <<sites, nextSiteId, siteUsers, nextSiteUserId>>
requestVars == <<session, sessionBy, req, modelsSiteUser, viewsSiteUser>>
authVars == <<backends, userPerms, groupPerms, memberships, inst, userObj, call>>
cacheVars == <<rootPathsCache, prevPaths>>
tenantVars == <<storeVars, requestVars, cacheVars, lookup, rootPaths>>

\* no row / no object
NoRow == [id |-> NoId, hostname |-> "", port |-> NoId, url_path |-> ""]

(***************************************************************************)
(* get_site_for_hostname                                                   *)
(***************************************************************************)
\* .filter(hostname=hostname)
Candidates(hostname) == {s \in sites : s.hostname = hostname}

\* a Case whose first When forgets the port
MatchIgnoringPort(s, hostname, port) ==
    IF s.hostname = hostname THEN MATCH_HOSTNAME ELSE MATCH_HOSTNAME + 1

\* the Case(When(...), When(...)) annotation
Match(s, hostname, port) ==
    IF s.hostname = hostname /\ s.port = port THEN MATCH_HOSTNAME_PORT
    ELSE IF s.hostname = hostname THEN MATCH_HOSTNAME
    ELSE MATCH_HOSTNAME + 1   \* NULL: no When applies; the filter drops the row

\* list(... .order_by("match")): every order of the candidates that is sorted
\* by match; the order of rows with equal match is left to the database.
SiteLists(hostname, port) ==
    LET C == Candidates(hostname)
        n == Cardinality(C)
    IN {l \in [1..n -> C] :
            /\ \A i, j \in 1..n : i # j => l[i] # l[j]
            /\ \A i, j \in 1..n :
                 i < j => Match(l[i], hostname, port) <= Match(l[j], hostname, port)}

\* a resolver that accepts nothing but the exact hostname+port match
get_site_for_hostname_exact(hostname, port) ==
    IF \E s \in Candidates(hostname) : s.port = port
    THEN {[kind |-> "ok", site |-> s, warned |-> FALSE]
            : s \in {c \in Candidates(hostname) : c.port = port}}
    ELSE {[kind |-> "DoesNotExist", site |-> NoRow, warned |-> FALSE]}

\* The outcomes get_site_for_hostname(hostname, port) can have on the store.
get_site_for_hostname(hostname, port) ==
    IF Candidates(hostname) = {}
    THEN {[kind |-> "DoesNotExist", site |-> NoRow, warned |-> FALSE]}
    ELSE {[kind |-> "ok", site |-> l[1],
           warned |-> ~(Len(l) = 1 \/ Match(l[1], hostname, port) = MATCH_HOSTNAME_PORT)]
            : l \in SiteLists(hostname, port)}

(***************************************************************************)
(* Site.root_url, Site.get_site_root_paths                                 *)
(***************************************************************************)
\* a root_url without the https case
root_url_http(site) ==
    IF site.port = 80 THEN <<"http", site.hostname, NoId>>
    ELSE <<"http", site.hostname, site.port>>

\* "http://%s" / "https://%s" / "http://%s:%d" as (scheme, host, port shown)
root_url(site) ==
    IF site.port = 80 THEN <<"http", site.hostname, NoId>>
    ELSE IF site.port = 443 THEN <<"https", site.hostname, NoId>>
    ELSE <<"http", site.hostname, site.port>>

\* WAGTAIL_I18N_ENABLED unset: one SiteRootPath(site_id, root_path, root_url)
get_site_root_paths(site) == <<[site_id |-> site.id,
                               root_path |-> site.url_path,
                               root_url |-> root_url(site)]>>


(***************************************************************************)
(* Model instances and the request object                                  *)
(***************************************************************************)
\* a Site instance: the row as loaded, and the identity of the Python object
SiteObj(row, oid) == [oid |-> oid, id |-> row.id, hostname |-> row.hostname,
                      port |-> row.port, url_path |-> row.url_path]
NoSite == SiteObj(NoRow, 0)

\* a SiteUser instance with its .site (select_related / loaded on first access)
SiteUserObj(row, siteRow, oid) ==
    [oid |-> oid, id |-> row.id, site_id |-> row.site_id, user |-> row.user,
     is_active |-> row.is_active, is_superuser |-> row.is_superuser,
     site |-> SiteObj(siteRow, oid)]
NoSiteUser == [oid |-> 0, id |-> NoId, site_id |-> NoId, user |-> "",
               is_active |-> FALSE, is_superuser |-> FALSE, site |-> NoSite]

\* what the last call on the request did: the operation, how it ended
\* ("ok" or the exception that left it) and the object it returned
\* hit: the object was already attached to the request and was not loaded
Ret(op, kind, site, site_user, hit) ==
    [op |-> op, kind |-> kind, site |-> site, site_user |-> site_user,
     hit |-> hit, arg |-> NoId, msg |-> ""]
\* the outcome of a view: its site_id argument and the level of the message
\* it added (django messages), "" for none
RetView(op, kind, arg, msg) ==
    [op |-> op, kind |-> kind, site |-> NoSite, site_user |-> NoSiteUser,
     hit |-> FALSE, arg |-> arg, msg |-> msg]

\* a fresh HttpRequest: no _wagtail_site, a request.user without site_user
NewRequestObj(user, host, port) ==
    [user |-> user, host |-> host, port |-> port,
     wagtail_site |-> NoSite,      \* request._wagtail_site (oid 0: no attribute)
     site_user |-> NoSiteUser,     \* request.user.site_user (oid 0: no attribute)
     lookups |-> 0,                \* runs of Site._find_for_request
     first_site |-> 0,             \* oid first returned by Site.find_for_request
     ret |-> Ret("new", "ok", NoSite, NoSiteUser, FALSE)]

\* an object identity no live object of the request has
FreshOid(rq) ==
    LET used == {rq.wagtail_site.oid, rq.site_user.oid, rq.site_user.site.oid,
                 rq.first_site, rq.ret.site.oid, rq.ret.site_user.oid,
                 rq.ret.site_user.site.oid}
    IN CHOOSE n \in 1..(Cardinality(used) + 1) :
           n \notin used /\ \A m \in 1..(n - 1) : m \in used

SiteRow(id) == CHOOSE s \in sites : s.id = id

\* request.user.user_siteusers / SiteUser.objects.filter(site_id=, user_id=)
UserSiteUsers(user) == {su \in siteUsers : su.user = user}
SiteUserRows(site_id, user) ==
    {su \in siteUsers : su.site_id = site_id /\ su.user = user}

\* QuerySet.first() in the place of last(): the row with the least pk
First(rows) == CHOOSE su \in rows : \A o \in rows : su.id <= o.id

\* QuerySet.last() of an unordered queryset: the row with the greatest pk
Last(rows) == CHOOSE su \in rows : \A o \in rows : o.id <= su.id

(***************************************************************************)
(* Ghost records are dropped when the store changes: they speak of the     *)
(* store they were computed on.                                            *)
(***************************************************************************)
NoLookup == [kind |-> "none", hostname |-> "", port |-> NoId,
             site |-> NoRow, warned |-> FALSE]
NoRootPaths == [site_id |-> NoId, paths |-> <<>>]
StoreChanged == lookup' = NoLookup /\ rootPaths' = NoRootPaths

(***************************************************************************)
(* The store: Site.save, SiteForm.save, deletion, SiteUser rows            *)
(***************************************************************************)
Unique(hostname, port, except) ==
    \A s \in sites : s.id # except => ~(s.hostname = hostname /\ s.port = port)

\* SiteUserManager.create_site_creator
create_site_creator(creator, site_id) ==
    [id |-> nextSiteUserId, site_id |-> site_id, user |-> creator,
     is_active |-> TRUE, is_superuser |-> TRUE]

\* Site.save() of an instance without pk, inside transaction.atomic():
\* Page.add_root, the INSERT, and the creator's SiteUser. An IntegrityError
\* (unique_together) rolls the whole block back: no step.
SiteSaveNew(hostname, port, creator) ==
    /\ nextSiteId <= MaxSites
    /\ Unique(hostname, port, NoId)
    /\ sites' = sites \cup {[id |-> nextSiteId, hostname |-> hostname,
                             port |-> port, url_path |-> "/"]}
    /\ nextSiteId' = nextSiteId + 1
    /\ IF creator # ""
       THEN /\ nextSiteUserId <= MaxSiteUsers
            /\ siteUsers' = siteUsers \cup {create_site_creator(creator, nextSiteId)}
            /\ nextSiteUserId' = nextSiteUserId + 1
       ELSE UNCHANGED <<siteUsers, nextSiteUserId>>
    /\ StoreChanged
    /\ UNCHANGED <<authVars, tx, requestVars, cacheVars>>

\* Site.save() of an instance with pk: the UPDATE
SiteSaveUpdate(id, hostname, port) ==
    /\ \E s \in sites : s.id = id
    /\ Unique(hostname, port, id)
    /\ sites' = (sites \ {SiteRow(id)}) \cup
                {[SiteRow(id) EXCEPT !.hostname = hostname, !.port = port]}
    /\ sites' # sites
    /\ StoreChanged
    /\ UNCHANGED <<authVars, tx, nextSiteId, siteUsers, nextSiteUserId, requestVars, cacheVars>>

\* Site.clean(), run by the model form's validation
clean(hostname) == Lower(hostname)

\* SiteForm(user=user).save(): clean() then instance.save(create_site_user_for=user)
SiteFormCreate(hostname, port, user) ==
    SiteSaveNew(clean(hostname), port, user)

\* SiteForm(instance=site).save(): clean() then instance.save()
SiteFormUpdate(id, hostname, port) ==
    SiteSaveUpdate(id, clean(hostname), port)

\* Site.delete(): on_delete=CASCADE removes the site's SiteUser rows
SiteDelete(id) ==
    /\ \E s \in sites : s.id = id
    /\ sites' = sites \ {SiteRow(id)}
    /\ siteUsers' = {su \in siteUsers : su.site_id # id}
    /\ StoreChanged
    /\ UNCHANGED <<authVars, tx, nextSiteId, nextSiteUserId, requestVars, cacheVars>>

\* SiteUser.objects.create(site=, user=, ...): UniqueConstraint(site, user)
SiteUserCreate(site_id, user, is_active, is_superuser) ==
    /\ nextSiteUserId <= MaxSiteUsers
    /\ \E s \in sites : s.id = site_id
    /\ SiteUserRows(site_id, user) = {}
    /\ siteUsers' = siteUsers \cup
         {[id |-> nextSiteUserId, site_id |-> site_id, user |-> user,
           is_active |-> is_active, is_superuser |-> is_superuser]}
    /\ nextSiteUserId' = nextSiteUserId + 1
    /\ StoreChanged
    /\ UNCHANGED <<authVars, tx, sites, nextSiteId, requestVars, cacheVars>>

\* SiteUser.delete(): membership revoked
SiteUserDelete(site_id, user) ==
    /\ SiteUserRows(site_id, user) # {}
    /\ siteUsers' = siteUsers \ SiteUserRows(site_id, user)
    /\ StoreChanged
    /\ UNCHANGED <<authVars, tx, sites, nextSiteId, nextSiteUserId, requestVars, cacheVars>>

\* the root page of a site gets another url_path (page tree, outside this layer)
RootPageSave(id, url_path) ==
    /\ \E s \in sites : s.id = id /\ s.url_path # url_path
    /\ sites' = (sites \ {SiteRow(id)}) \cup
                {[SiteRow(id) EXCEPT !.url_path = url_path]}
    /\ StoreChanged
    /\ UNCHANGED <<authVars, tx, nextSiteId, siteUsers, nextSiteUserId, requestVars, cacheVars>>

(***************************************************************************)
(* Direct calls of the resolver and of the root paths                      *)
(***************************************************************************)
Resolve(hostname, port) ==
    /\ \E out \in get_site_for_hostname(hostname, port) :
         lookup' = [kind |-> out.kind, hostname |-> hostname, port |-> port,
                    site |-> out.site, warned |-> out.warned]
    /\ UNCHANGED <<authVars, tx, storeVars, requestVars, cacheVars, rootPaths>>

\* site = Site.objects.get(pk=id); site.get_site_root_paths()
GetSiteRootPaths(id) ==
    /\ \E s \in sites : s.id = id
    /\ rootPaths' = [site_id |-> id,
                     paths |-> get_site_root_paths(SiteObj(SiteRow(id), 1))]
    /\ prevPaths' = IF prevPaths.site_id = id THEN prevPaths ELSE rootPaths'
    /\ UNCHANGED <<authVars, tx, storeVars, requestVars, rootPathsCache, lookup>>

\* Site.clear_site_root_paths_cache(): cache.delete(key, version)
clear_site_root_paths_cache ==
    /\ rootPathsCache' = "absent"
    /\ prevPaths' = NoRootPaths
    /\ UNCHANGED <<authVars, tx, storeVars, requestVars, lookup, rootPaths>>

(***************************************************************************)
(* Requests                                                                *)
(***************************************************************************)
\* a new request arrives on the worker (the previous one is over); the user
\* is authenticated and the session is the user's browser session
NewRequest(r, user, host, port) ==
    /\ req' = [req EXCEPT ![r] = NewRequestObj(user, host, port)]
    /\ UNCHANGED <<authVars, tx, storeVars, session, sessionBy, modelsSiteUser, viewsSiteUser,
                   cacheVars, lookup, rootPaths>>

\* django.http.request.split_domain_port(request.get_host())[0]: lower-cased
split_domain_port(host) == Lower(host)

\* a find_for_request that looks the site up on every call
SiteFindForRequestNoMemo(r) ==
    LET rq == req[r] IN
    /\ rq.lookups < MaxLookups
    /\ \E out \in get_site_for_hostname(split_domain_port(rq.host), rq.port) :
         IF out.kind = "ok"
         THEN LET site == SiteObj(out.site, FreshOid(rq)) IN
              req' = [req EXCEPT ![r] =
                        [rq EXCEPT !.lookups = @ + 1,
                                   !.wagtail_site = site,
                                   !.first_site = IF @ = 0 THEN site.oid ELSE @,
                                   !.ret = Ret("Site.find_for_request", "ok",
                                               site, NoSiteUser, FALSE)]]
         ELSE req' = [req EXCEPT ![r] =
                        [rq EXCEPT !.lookups = @ + 1,
                                   !.ret = Ret("Site.find_for_request",
                                               "Site.DoesNotExist",
                                               NoSite, NoSiteUser, FALSE)]]
    /\ UNCHANGED <<authVars, tx, storeVars, session, sessionBy, modelsSiteUser, viewsSiteUser,
                   cacheVars, lookup, rootPaths>>

\* Site.find_for_request(request), with Site._find_for_request
SiteFindForRequest(r) ==
    LET rq == req[r] IN
    /\ IF rq.wagtail_site.oid = 0     \* not hasattr(request, "_wagtail_site")
       THEN /\ rq.lookups < MaxLookups
            /\ \E out \in get_site_for_hostname(split_domain_port(rq.host), rq.port) :
                 IF out.kind = "ok"
                 THEN LET site == SiteObj(out.site, FreshOid(rq)) IN
                      req' = [req EXCEPT ![r] =
                                [rq EXCEPT !.lookups = @ + 1,
                                           !.wagtail_site = site,
                                           !.first_site = IF @ = 0 THEN site.oid ELSE @,
                                           !.ret = Ret("Site.find_for_request", "ok",
                                                       site, NoSiteUser, FALSE)]]
                 ELSE \* Site.DoesNotExist leaves before setattr
                      req' = [req EXCEPT ![r] =
                                [rq EXCEPT !.lookups = @ + 1,
                                           !.ret = Ret("Site.find_for_request",
                                                       "Site.DoesNotExist",
                                                       NoSite, NoSiteUser, FALSE)]]
       ELSE req' = [req EXCEPT ![r] =
                      [rq EXCEPT !.first_site = IF @ = 0 THEN rq.wagtail_site.oid ELSE @,
                                 !.ret = Ret("Site.find_for_request", "ok",
                                             rq.wagtail_site, NoSiteUser, TRUE)]]
    /\ UNCHANGED <<authVars, tx, storeVars, session, sessionBy, modelsSiteUser, viewsSiteUser,
                   cacheVars, lookup, rootPaths>>

\* set_current_session_project that leaves the session alone
SetProjectSessionKept(user, site_user) == session

\* a set_current_session_project that leaves request._wagtail_site alone
SetProjectRequestSiteKept(rq, site_user) == [rq EXCEPT !.site_user = site_user]

\* set_current_session_project(request, site_user, set_default=True):
\* the request object and the session value after it
SetProjectRequest(rq, site_user) ==
    [rq EXCEPT !.site_user = site_user, !.wagtail_site = site_user.site]
SetProjectSession(user, site_user) ==
    [session EXCEPT ![user] = site_user.site_id]

\* AbstractSiteUser.find_for_request(request): the request, the session and
\* the module global after the call
FindSiteUser(r) ==
    LET rq == req[r]
        op == "SiteUser.find_for_request"
        user == rq.user
        stored == session[user]
    IN
    /\ modelsSiteUser' = "model"          \* SiteUser = SiteUser or get_site_user_model()
    /\ IF stored = NoId /\ UserSiteUsers(user) = {}
       THEN \* .last() is None: None.site_id
            /\ req' = [req EXCEPT ![r] =
                        [rq EXCEPT !.ret = Ret(op, "AttributeError", NoSite,
                                               NoSiteUser, FALSE)]]
            /\ UNCHANGED <<session, sessionBy>>
       ELSE LET site_id == IF stored = NoId
                           THEN Last(UserSiteUsers(user)).site_id
                           ELSE stored
                rows == SiteUserRows(site_id, user)
                by == IF stored = NoId
                      THEN [sessionBy EXCEPT ![user] = "default"]
                      ELSE sessionBy
            IN IF rows = {}
               THEN \* .get() raises SiteUser.DoesNotExist
                    /\ req' = [req EXCEPT ![r] =
                                [rq EXCEPT !.ret = Ret(op, "SiteUser.DoesNotExist",
                                                       NoSite, NoSiteUser, FALSE)]]
                    /\ session' = [session EXCEPT ![user] = site_id]
                    /\ sessionBy' = by
               ELSE LET row == CHOOSE su \in rows : TRUE
                        site_user == SiteUserObj(row, SiteRow(row.site_id), FreshOid(rq))
                    IN IF rq.site_user.oid = 0 \/ rq.site_user.site_id # site_id
                       THEN /\ req' = [req EXCEPT ![r] =
                                  [SetProjectRequest(rq, site_user) EXCEPT
                                      !.ret = Ret(op, "ok", NoSite, site_user, FALSE)]]
                            /\ session' = SetProjectSession(user, site_user)
                            /\ sessionBy' = by
                       ELSE /\ req' = [req EXCEPT ![r] =
                                  [rq EXCEPT !.ret = Ret(op, "ok", NoSite,
                                                         rq.site_user, TRUE)]]
                            /\ session' = [session EXCEPT ![user] = site_id]
                            /\ sessionBy' = by

\* SiteUser.find_for_request(request), called by a view or a decorator
SiteUserFindForRequest(r) ==
    /\ FindSiteUser(r)
    /\ UNCHANGED <<authVars, tx, storeVars, viewsSiteUser, cacheVars, lookup, rootPaths>>

\* SiteUserMiddleware.process_request(request); matches: PATHS_NEED_SITE is
\* set and one of its patterns matches request.path
process_request(r, matches) ==
    /\ IF matches
       THEN FindSiteUser(r)
       ELSE UNCHANGED <<req, session, sessionBy, modelsSiteUser>>
    /\ UNCHANGED <<authVars, tx, storeVars, viewsSiteUser, cacheVars, lookup, rootPaths>>

\* import wagtail.sites.views: `from wagtail.models.sites import SiteUser`
\* binds the value the global has at that moment
ImportViews ==
    /\ viewsSiteUser = "unimported"
    /\ viewsSiteUser' = modelsSiteUser
    /\ UNCHANGED <<authVars, tx, storeVars, session, sessionBy, req, modelsSiteUser,
                   cacheVars, lookup, rootPaths>>

\* redirect(request.META["HTTP_REFERER"])
Redirect(referer) == IF referer THEN "ok" ELSE "KeyError"

\* site_workon_view(request, site_id); referer: the request has a Referer header
site_workon_view(r, site_id, referer) ==
    LET rq == req[r]
        rows == SiteUserRows(site_id, rq.user)
    IN
    /\ viewsSiteUser # "unimported"
    /\ IF rows = {}
       THEN \* .get() raises <model>.DoesNotExist; the except clause evaluates
            \* SiteUser.DoesNotExist on the name bound at import
            /\ IF viewsSiteUser = "None"
               THEN req' = [req EXCEPT ![r].ret =
                              RetView("site_workon_view", "AttributeError", site_id, "")]
               ELSE req' = [req EXCEPT ![r].ret =
                              RetView("site_workon_view", Redirect(referer),
                                      site_id, "error")]
            /\ UNCHANGED <<session, sessionBy>>
       ELSE LET row == CHOOSE su \in rows : TRUE
                site_user == SiteUserObj(row, SiteRow(row.site_id), FreshOid(rq))
            IN /\ req' = [req EXCEPT ![r] =
                     [SetProjectRequest(rq, site_user) EXCEPT
                         !.ret = RetView("site_workon_view", Redirect(referer),
                                         site_id, "success")]]
               /\ session' = SetProjectSession(rq.user, site_user)
               /\ sessionBy' = [sessionBy EXCEPT ![rq.user] = "switch"]
    /\ UNCHANGED <<authVars, tx, storeVars, modelsSiteUser, viewsSiteUser,
                   cacheVars, lookup, rootPaths>>

(***************************************************************************)
(* Permissions: strings, Permission rows, identity instances               *)
(***************************************************************************)
MaxBackends == 2

\* a string is the sequence of its characters
Dot == "."

\* the positions of the "." in a string
Dots(s) == {i \in 1..Len(s) : s[i] = Dot}

\* str.index("."), 0-based; -1 stands for the ValueError of a missing "."
Index(s) ==
    IF Dots(s) = {} THEN -1
    ELSE (CHOOSE i \in Dots(s) : \A j \in Dots(s) : i <= j) - 1

\* str.split("."): the pieces between the dots, empty ones included
Split(s) ==
    LET nth(k) == IF k = 0 THEN 0
                  ELSE IF k > Cardinality(Dots(s)) THEN Len(s) + 1
                  ELSE CHOOSE i \in Dots(s) :
                           Cardinality({d \in Dots(s) : d < i}) = k - 1
    IN [k \in 1..(Cardinality(Dots(s)) + 1) |->
           SubSeq(s, nth(k - 1) + 1, nth(k) - 1)]

\* auth.Permission rows: (pk, content_type__app_label, codename)
Permissions == {[pk |-> 1, app_label |-> <<"a">>, codename |-> <<"x">>],
                [pk |-> 2, app_label |-> <<"a", "b">>, codename |-> <<"x">>]}

\* "%s.%s" % (ct, name)
PermString(p) == p.app_label \o <<Dot>> \o p.codename

Groups == {"g1"}
IdentityIds == {1, 2}

\* obj=None and an object
NoObj == "None"
Objs == {NoObj, "page"}

\* the permission strings and app labels asked for
PermArgs == {PermString(p) : p \in Permissions} \cup {<<"a", Dot, "y">>}
AppLabels == {<<"a">>, <<"a", "b">>, <<"b">>}

\* a cache attribute of an instance: set (hasattr) and its value
NoCache == [set |-> FALSE, perms |-> {}]
Cached(perms) == [set |-> TRUE, perms |-> perms]

\* a SiteUser instance as loaded from its row: no cache attribute yet; asked
\* remembers what the first object-less get_site_all_permissions() of the
\* instance returned while it was active
SiteUserInst(row) ==
    [id |-> row.id, site_id |-> row.site_id, user |-> row.user,
     is_active |-> row.is_active, is_superuser |-> row.is_superuser,
     user_perm_cache |-> NoCache, group_perm_cache |-> NoCache,
     perm_cache |-> NoCache, asked |-> NoCache]
NoInst ==
    [id |-> NoId, site_id |-> NoId, user |-> "",
     is_active |-> FALSE, is_superuser |-> FALSE,
     user_perm_cache |-> NoCache, group_perm_cache |-> NoCache,
     perm_cache |-> NoCache, asked |-> NoCache]

\* the outcome of a permission method: the boolean or the set it returned,
\* the instance after it, the number of queries it ran, the exception ("")
Res(ok, perms, su, q, exc) ==
    [ok |-> ok, perms |-> perms, inst |-> su, q |-> q, exc |-> exc]

(***************************************************************************)
(* wagtail/sites/backends.py                                               *)
(***************************************************************************)
BackendKinds == {"ModelBackend", "BaseSiteAuthBackend", "SiteAuthBackend",
                 "GrantingBackend", "DenyingBackend"}
ShippedKinds == {"ModelBackend", "BaseSiteAuthBackend", "SiteAuthBackend"}

\* the chains of backends settings can register
Chains(kinds) == UNION {[1..n -> kinds] : n \in 1..MaxBackends}

\* hasattr(backend, name)
HasAttr(backend, name) ==
    CASE backend = "BaseSiteAuthBackend" ->
            name \in {"get_site_user_permissions", "get_site_group_permissions",
                      "get_site_all_permissions", "has_site_perm"}
      [] backend = "SiteAuthBackend" ->
            name \in {"get_site_user_permissions", "get_site_group_permissions",
                      "get_site_all_permissions", "has_site_perm",
                      "has_module_site_perms", "site_with_perm"}
      [] backend \in {"GrantingBackend", "DenyingBackend"} ->
            name \in {"has_site_perm", "has_module_site_perms"}
      [] OTHER -> FALSE

\* site_user_obj.site_user_permissions.all()
_get_site_user_permissions(su) == userPerms[su.id]

\* Permission.objects.filter(permission_sitegroups__sitegroup_siteusers=su)
_get_site_group_permissions(su) ==
    UNION {groupPerms[g] : g \in memberships[su.id]}

PermCache(su, from_name) ==
    IF from_name = "user" THEN su.user_perm_cache ELSE su.group_perm_cache
SetPermCache(su, from_name, c) ==
    IF from_name = "user" THEN [su EXCEPT !.user_perm_cache = c]
    ELSE [su EXCEPT !.group_perm_cache = c]

\* the query of _get_site_permissions for from_name: a superuser gets
\* Permission.objects.filter(permission_siteusers=site_user_obj), the others
\* _get_site_user_permissions or _get_site_group_permissions
QueryPermissions(su, from_name) ==
    IF su.is_superuser THEN userPerms[su.id]
    ELSE IF from_name = "user" THEN _get_site_user_permissions(su)
    ELSE _get_site_group_permissions(su)

\* setattr(site_user_obj, perm_cache_name, {"%s.%s" % (ct, name) ...}) and
\* the return of the attribute, after one query
FillPermCache(su, from_name, strs) ==
    Res(FALSE, strs, SetPermCache(su, from_name, Cached(strs)), 1, "")

\* a _get_site_permissions that goes to the cache whatever obj is
_get_site_permissions_any_obj(su, obj, from_name) ==
    IF ~su.is_active
    THEN Res(FALSE, {}, su, 0, "")
    ELSE IF ~PermCache(su, from_name).set
    THEN FillPermCache(su, from_name,
                       {PermString(p) : p \in QueryPermissions(su, from_name)})
    ELSE Res(FALSE, PermCache(su, from_name).perms, su, 0, "")

\* SiteAuthBackend._get_site_permissions(site_user_obj, obj, from_name)
_get_site_permissions(su, obj, from_name) ==
    IF ~su.is_active \/ obj # NoObj
    THEN Res(FALSE, {}, su, 0, "")
    ELSE IF ~PermCache(su, from_name).set
    THEN FillPermCache(su, from_name,
                       {PermString(p) : p \in QueryPermissions(su, from_name)})
    ELSE Res(FALSE, PermCache(su, from_name).perms, su, 0, "")

\* {*u, *g} and permissions.update(g): the two results in one
UnionOf(u, g) == Res(FALSE, u.perms \cup g.perms, g.inst, u.q + g.q, "")

\* u being the backend's user permissions, the union with its group ones
WithGroupPermissions(u, obj) ==
    UnionOf(u, _get_site_permissions(u.inst, obj, "group"))

\* BaseSiteAuthBackend.get_site_all_permissions as SiteAuthBackend reaches it
\* through super(): the union of the backend's user and group permissions
Base_get_site_all_permissions(su, obj) ==
    WithGroupPermissions(_get_site_permissions(su, obj, "user"), obj)

\* site_user_obj._perm_cache = <a>; return site_user_obj._perm_cache
KeepPermCache(a) ==
    Res(FALSE, a.perms, [a.inst EXCEPT !.perm_cache = Cached(a.perms)], a.q, "")

\* SiteAuthBackend.get_site_all_permissions(site_user_obj, obj)
SiteAuth_get_site_all_permissions(su, obj) ==
    IF ~su.is_active \/ obj # NoObj
    THEN Res(FALSE, {}, su, 0, "")
    ELSE IF ~su.perm_cache.set
    THEN KeepPermCache(Base_get_site_all_permissions(su, NoObj))
    ELSE Res(FALSE, su.perm_cache.perms, su, 0, "")

\* backend.get_site_<from_name>_permissions(site_user, obj)
BackendGetPermissions(backend, su, obj, from_name) ==
    IF backend = "SiteAuthBackend"
    THEN IF from_name = "all" THEN SiteAuth_get_site_all_permissions(su, obj)
         ELSE _get_site_permissions(su, obj, from_name)
    ELSE Res(FALSE, {}, su, 0, "")     \* BaseSiteAuthBackend: set()

\* perm in <a>, a being the outcome of get_site_all_permissions
PermIn(perm, a) == Res(perm \in a.perms, {}, a.inst, a.q, "")

\* SiteAuthBackend.has_site_perm(site_user_obj, perm, obj)
SiteAuth_has_site_perm(su, perm, obj) ==
    IF ~su.is_active THEN Res(FALSE, {}, su, 0, "")
    ELSE PermIn(perm, SiteAuth_get_site_all_permissions(su, obj))

\* backend.has_site_perm(site_user, perm, obj)
BackendHasSitePerm(backend, su, perm, obj) ==
    CASE backend = "SiteAuthBackend" -> SiteAuth_has_site_perm(su, perm, obj)
      [] backend = "GrantingBackend" -> Res(TRUE, {}, su, 0, "")
      [] backend = "DenyingBackend" -> Res(FALSE, {}, su, 0, "PermissionDenied")
      [] OTHER -> Res(FALSE, {}, su, 0, "")  \* BaseSiteAuthBackend: perm in set()

\* a test on the first characters alone, without the "."
InAppLabelPrefix(perm, app_label) ==
    /\ Len(perm) >= Len(app_label)
    /\ SubSeq(perm, 1, Len(app_label)) = app_label

\* perm[: perm.index(".")] == app_label
InAppLabel(perm, app_label) == SubSeq(perm, 1, Index(perm)) = app_label

\* any(perm[: perm.index(".")] == app_label for perm in <a>)
AnyInAppLabel(app_label, a) ==
    Res(\E perm \in a.perms : InAppLabel(perm, app_label), {}, a.inst, a.q, "")

\* SiteAuthBackend.has_module_site_perms(site_user_obj, app_label)
SiteAuth_has_module_site_perms(su, app_label) ==
    IF ~su.is_active THEN Res(FALSE, {}, su, 0, "")
    ELSE AnyInAppLabel(app_label, SiteAuth_get_site_all_permissions(su, NoObj))

\* backend.has_module_site_perms(site_user, app_label)
BackendHasModuleSitePerms(backend, su, app_label) ==
    CASE backend = "SiteAuthBackend" -> SiteAuth_has_module_site_perms(su, app_label)
      [] backend = "GrantingBackend" -> Res(TRUE, {}, su, 0, "")
      [] OTHER -> Res(FALSE, {}, su, 0, "PermissionDenied")   \* DenyingBackend

(***************************************************************************)
(* wagtail/models/sites.py: the backend chain and AbstractSiteUser         *)
(***************************************************************************)
\* "get_site_%s_permissions" % from_name
PermissionsMethod(from_name) ==
    CASE from_name = "user" -> "get_site_user_permissions"
      [] from_name = "group" -> "get_site_group_permissions"
      [] OTHER -> "get_site_all_permissions"

\* a loop turn that keeps the last backend's permissions only
\* (permissions = ... in place of permissions.update(...))
GetPermissionsStepLast(prev, backend, obj, from_name) ==
    IF ~HasAttr(backend, PermissionsMethod(from_name)) THEN prev
    ELSE BackendGetPermissions(backend, prev.inst, obj, from_name)

\* one turn of the loop of _site_user_get_permissions
GetPermissionsStep(prev, backend, obj, from_name) ==
    IF ~HasAttr(backend, PermissionsMethod(from_name)) THEN prev
    ELSE UnionOf(prev, BackendGetPermissions(backend, prev.inst, obj, from_name))

\* _site_user_get_permissions(site_user, obj, from_name): loop[i] is the
\* state of the loop after backend i
_site_user_get_permissions(su, obj, from_name) ==
    LET loop[i \in 0..Len(backends)] ==
            IF i = 0 THEN Res(FALSE, {}, su, 0, "")
            ELSE GetPermissionsStep(loop[i - 1], backends[i], obj, from_name)
    IN loop[Len(backends)]

\* the state of a loop over the backends: whether it has returned, and the
\* outcome so far
Returned(ok, prev, r) ==
    [done |-> TRUE, r |-> Res(ok, {}, r.inst, prev.r.q + r.q, "")]
Looping(prev, r) ==
    [done |-> FALSE, r |-> Res(FALSE, {}, r.inst, prev.r.q + r.q, "")]
LoopStart(su) == [done |-> FALSE, r |-> Res(FALSE, {}, su, 0, "")]

\* a try block in which PermissionDenied only skips the backend that raised
TryBackendDenialSkipped(prev, r) ==
    IF r.exc = "" /\ r.ok THEN Returned(TRUE, prev, r)
    ELSE Looping(prev, r)

\* try: if <r>: return True / except PermissionDenied: return False
TryBackend(prev, r) ==
    IF r.exc = "PermissionDenied" THEN Returned(FALSE, prev, r)
    ELSE IF r.ok THEN Returned(TRUE, prev, r)
    ELSE Looping(prev, r)

\* one turn of the loop of _site_user_has_perm
HasPermStep(prev, backend, perm, obj) ==
    IF prev.done \/ ~HasAttr(backend, "has_site_perm") THEN prev
    ELSE TryBackend(prev, BackendHasSitePerm(backend, prev.r.inst, perm, obj))

\* _site_user_has_perm(site_user, perm, obj): loop[i] is the state of the
\* loop after backend i
_site_user_has_perm(su, perm, obj) ==
    LET loop[i \in 0..Len(backends)] ==
            IF i = 0 THEN LoopStart(su)
            ELSE HasPermStep(loop[i - 1], backends[i], perm, obj)
    IN loop[Len(backends)].r

\* one turn of the loop of _site_user_has_module_perms
HasModulePermsStep(prev, backend, app_label) ==
    IF prev.done \/ ~HasAttr(backend, "has_module_site_perms") THEN prev
    ELSE TryBackend(prev, BackendHasModuleSitePerms(backend, prev.r.inst, app_label))

\* _site_user_has_module_perms(site_user, app_label)
_site_user_has_module_perms(su, app_label) ==
    LET loop[i \in 0..Len(backends)] ==
            IF i = 0 THEN LoopStart(su)
            ELSE HasModulePermsStep(loop[i - 1], backends[i], app_label)
    IN loop[Len(backends)].r

\* AbstractSiteUser.get_site_user_permissions / _group_ / _all_
get_site_user_permissions(su, obj) == _site_user_get_permissions(su, obj, "user")
get_site_group_permissions(su, obj) == _site_user_get_permissions(su, obj, "group")
get_site_all_permissions(su, obj) == _site_user_get_permissions(su, obj, "all")

\* a site_has_perm that lets every superuser through, active or not
site_has_perm_superuser(su, perm, obj) ==
    IF su.is_superuser THEN Res(TRUE, {}, su, 0, "")
    ELSE _site_user_has_perm(su, perm, obj)

\* AbstractSiteUser.site_has_perm(perm, obj)
site_has_perm(su, perm, obj) ==
    IF su.is_active /\ su.is_superuser THEN Res(TRUE, {}, su, 0, "")
    ELSE _site_user_has_perm(su, perm, obj)

\* all(...) after the first item gave r1: the second item, if there is one
AllAfterFirst(r1, perm_list, obj) ==
    IF ~r1.ok \/ Len(perm_list) = 1 THEN r1
    ELSE site_has_perm(r1.inst, perm_list[2], obj)

\* AbstractSiteUser.site_has_perms(perm_list, obj) for a perm_list of at most
\* two items: all(self.site_has_perm(perm, obj) for perm in perm_list) stops
\* at the first refusal; a str is given with is_list FALSE
site_has_perms(su, perm_list, is_list, obj) ==
    IF ~is_list THEN Res(FALSE, {}, su, 0, "ValueError")
    ELSE IF Len(perm_list) = 0 THEN Res(TRUE, {}, su, 0, "")
    ELSE AllAfterFirst(site_has_perm(su, perm_list[1], obj), perm_list, obj)

\* AbstractSiteUser.site_has_module_perms(app_label)
site_has_module_perms(su, app_label) ==
    IF su.is_active /\ su.is_superuser THEN Res(TRUE, {}, su, 0, "")
    ELSE _site_user_has_module_perms(su, app_label)

\* the arguments of a permission call
Args(perm, obj, app_label, perm_list, is_list) ==
    [perm |-> perm, obj |-> obj, app_label |-> app_label,
     perm_list |-> perm_list, is_list |-> is_list]

\* the methods of AbstractSiteUser that the permission calls go to
SiteUserMethods == {"get_site_user_permissions", "get_site_group_permissions",
                    "get_site_all_permissions", "site_has_perm",
                    "site_has_perms", "site_has_module_perms"}

\* getattr(site_user, name)(...)
Invoke(name, su, a) ==
    CASE name = "get_site_user_permissions" -> get_site_user_permissions(su, a.obj)
      [] name = "get_site_group_permissions" -> get_site_group_permissions(su, a.obj)
      [] name = "get_site_all_permissions" -> get_site_all_permissions(su, a.obj)
      [] name = "site_has_perm" -> site_has_perm(su, a.perm, a.obj)
      [] name = "site_has_perms" -> site_has_perms(su, a.perm_list, a.is_list, a.obj)
      [] OTHER -> site_has_module_perms(su, a.app_label)

\* the arguments the calls are made with
ArgsOf(name) ==
    CASE name = "site_has_perm" ->
            {Args(perm, obj, <<>>, <<>>, TRUE) : perm \in PermArgs, obj \in Objs}
      [] name = "site_has_perms" ->
            {Args(<<>>, NoObj, <<>>, l, b) :
                l \in {<<>>, <<<<"a", Dot, "x">>>>,
                       <<<<"a", Dot, "x">>, <<"a", "b", Dot, "x">>>>},
                b \in BOOLEAN}
      [] name = "site_has_module_perms" ->
            {Args(<<>>, NoObj, app_label, <<>>, TRUE) : app_label \in AppLabels}
      [] OTHER -> {Args(<<>>, obj, <<>>, <<>>, TRUE) : obj \in Objs}

(***************************************************************************)
(* SiteAuthBackend.site_with_perm                                          *)
(***************************************************************************)
\* the perm argument: a str (its characters), a Permission (its pk) or
\* something else
PermArg(type, chars, pk) == [type |-> type, chars |-> chars, pk |-> pk]
WithPermArgs ==
    {PermArg("str", PermString(p), NoId) : p \in Permissions} \cup
    {PermArg("Permission", <<>>, p.pk) : p \in Permissions} \cup
    {PermArg("str", <<"a", "x">>, NoId),
     PermArg("str", <<"a", Dot, "x", Dot, "y">>, NoId),
     PermArg("str", <<>>, NoId),
     PermArg("other", <<>>, NoId)}

\* is_active=True / False / None
IsActiveArgs == {"True", "False", "None"}

WithPermRes(exc, ids) == [exc |-> exc, ids |-> ids]

\* a site_with_perm that returns none() for an object before it looks at perm
site_with_perm_obj_first(perm, is_active, include_superusers, obj) ==
    IF obj # NoObj THEN WithPermRes("", {})
    ELSE IF perm.type = "str" /\ Len(Split(perm.chars)) # 2
    THEN WithPermRes("ValueError", {})
    ELSE IF perm.type \notin {"str", "Permission"}
    THEN WithPermRes("TypeError", {})
    ELSE WithPermRes("", {})

\* Q(is_active=is_active), left out: every identity passes
ActiveFilterNone(su, is_active) == TRUE

\* if is_active is not None: user_q &= Q(is_active=is_active)
ActiveFilter(su, is_active) ==
    is_active = "None" \/ su.is_active = (is_active = "True")

\* SiteAuthBackend.site_with_perm(perm, is_active, include_superusers, obj):
\* the exception or the ids of the rows of the queryset
site_with_perm(perm, is_active, include_superusers, obj) ==
    IF perm.type = "str" /\ Len(Split(perm.chars)) # 2
    THEN WithPermRes("ValueError", {})
    ELSE IF perm.type \notin {"str", "Permission"}
    THEN WithPermRes("TypeError", {})
    ELSE IF obj # NoObj
    THEN WithPermRes("", {})
    ELSE LET permission_q(su) ==
                 {p \in _get_site_group_permissions(su) \cup userPerms[su.id] :
                     IF perm.type = "Permission" THEN p.pk = perm.pk
                     ELSE /\ p.codename = Split(perm.chars)[2]
                          /\ p.app_label = Split(perm.chars)[1]}
             user_q(su) ==
                 /\ \/ permission_q(su) # {}
                    \/ include_superusers /\ su.is_superuser
                 /\ ActiveFilter(su, is_active)
         IN WithPermRes("", {su.id : su \in {s \in siteUsers : user_q(s)}})

(***************************************************************************)
(* SitePermissionsMonkeyPatchMixin (wagtail/sites/utils.py)                *)
(***************************************************************************)
\* a user object: whether site_user is attached, and the _site_* caches
NoUserObj == [attached |-> FALSE, site_user_perm_cache |-> NoCache,
              site_group_perm_cache |-> NoCache, site_perm_cache |-> NoCache]

OverlayMethods == {"get_user_permissions", "get_group_permissions",
                   "get_all_permissions", "has_perm", "has_perms",
                   "has_module_perms"}

\* the attribute of self.site_user each overlay method takes
OverlayTarget(method) ==
    CASE method = "get_user_permissions" -> "get_site_user_permissions"
      [] method = "get_group_permissions" -> "get_group_permissions"
      [] method = "get_all_permissions" -> "get_site_all_permissions"
      [] method = "has_perm" -> "site_has_perm"
      [] method = "has_perms" -> "site_has_perms"
      [] OTHER -> "site_has_module_perms"

\* cache(), before func: the user's _site_* caches are set on the site_user
CacheIn(u, su) ==
    [su EXCEPT
        !.perm_cache = IF u.site_perm_cache.set THEN u.site_perm_cache ELSE @,
        !.user_perm_cache =
            IF u.site_user_perm_cache.set THEN u.site_user_perm_cache ELSE @,
        !.group_perm_cache =
            IF u.site_group_perm_cache.set THEN u.site_group_perm_cache ELSE @]

\* cache(), after func: the site_user's caches are kept on the user
CacheOut(u, su) ==
    [u EXCEPT
        !.site_perm_cache = IF su.perm_cache.set THEN su.perm_cache ELSE @,
        !.site_user_perm_cache =
            IF su.user_perm_cache.set THEN su.user_perm_cache ELSE @,
        !.site_group_perm_cache =
            IF su.group_perm_cache.set THEN su.group_perm_cache ELSE @]

(***************************************************************************)
(* Permission calls, grants and instances as steps                         *)
(***************************************************************************)
NoCall == [op |-> "", via |-> "", args |-> Args(<<>>, NoObj, <<>>, <<>>, TRUE),
           ok |-> FALSE, perms |-> {}, exc |-> "", q |-> 0, before |-> NoInst,
           parg |-> PermArg("other", <<>>, NoId), is_active |-> "None",
           include_superusers |-> FALSE, ids |-> {}]

\* the record of a call of method op with arguments a and outcome r
Called(op, via, a, r, before) ==
    [NoCall EXCEPT !.op = op, !.via = via, !.args = a, !.ok = r.ok,
                   !.perms = r.perms, !.exc = r.exc, !.q = r.q,
                   !.before = before]

\* the call returns r: the instance after it, and the record of the call
Returns(op, via, a, r) ==
    /\ inst' = IF /\ op = "get_site_all_permissions" /\ a.obj = NoObj
                  /\ inst.is_active /\ ~inst.asked.set
               THEN [r.inst EXCEPT !.asked = Cached(r.perms)]
               ELSE r.inst
    /\ call' = Called(op, via, a, r, inst)

\* site_user.<name>(...) on the instance
CallIdentity(name, a) ==
    /\ inst # NoInst
    /\ Returns(name, "identity", a, Invoke(name, inst, a))
    /\ UNCHANGED <<tenantVars, backends, userPerms, groupPerms, memberships,
                   userObj, tx>>

\* SiteAuthBackend().get_site_<from_name>_permissions(site_user, obj), the
\* backend's method called on the instance directly
CallBackend(from_name, obj) ==
    /\ inst # NoInst
    /\ Returns(PermissionsMethod(from_name), "backend",
               Args(<<>>, obj, <<>>, <<>>, TRUE),
               BackendGetPermissions("SiteAuthBackend", inst, obj, from_name))
    /\ UNCHANGED <<tenantVars, backends, userPerms, groupPerms, memberships,
                   userObj, tx>>

\* user.<method>(...) through SitePermissionsMonkeyPatchMixin
OverlayCall(method, a) ==
    /\ IF ~userObj.attached
       THEN \* super().<method>(...): the default implementation
            /\ call' = Called(method, "default", a,
                              Res(FALSE, {}, NoInst, 0, ""), NoInst)
            /\ UNCHANGED <<inst, userObj>>
       ELSE IF OverlayTarget(method) \notin SiteUserMethods
       THEN \* self.site_user.<name>: no such attribute
            /\ call' = Called(method, "overlay", a,
                              Res(FALSE, {}, inst, 0, "AttributeError"), inst)
            /\ UNCHANGED <<inst, userObj>>
       ELSE /\ Returns(method, "overlay", a,
                       Invoke(OverlayTarget(method), CacheIn(userObj, inst), a))
            /\ userObj' = CacheOut(userObj, inst')
    /\ UNCHANGED <<tenantVars, backends, userPerms, groupPerms, memberships,
                   tx>>

\* backend.site_with_perm(perm, is_active, include_superusers, obj)
CallWithPerm(perm, is_active, include_superusers, obj) ==
    /\ LET r == site_with_perm(perm, is_active, include_superusers, obj) IN
       call' = [NoCall EXCEPT !.op = "site_with_perm", !.via = "backend",
                              !.parg = perm, !.is_active = is_active,
                              !.include_superusers = include_superusers,
                              !.args = Args(<<>>, obj, <<>>, <<>>, TRUE),
                              !.exc = r.exc, !.ids = r.ids]
    /\ UNCHANGED <<tenantVars, backends, userPerms, groupPerms, memberships,
                   inst, userObj, tx>>

\* SiteUser.objects.get(pk=id): a fresh instance of the row
LoadIdentity(id) ==
    /\ \E row \in siteUsers : row.id = id /\ inst' = SiteUserInst(row)
    /\ inst' # inst
    /\ UNCHANGED <<tenantVars, backends, userPerms, groupPerms, memberships,
                   userObj, call, tx>>

\* set_current_session_project: request.user.site_user = <fresh instance>
AttachIdentity(id) ==
    /\ \E row \in siteUsers : row.id = id /\ inst' = SiteUserInst(row)
    /\ userObj' = [userObj EXCEPT !.attached = TRUE]
    /\ <<inst', userObj'>> # <<inst, userObj>>
    /\ UNCHANGED <<tenantVars, backends, userPerms, groupPerms, memberships,
                   call, tx>>

\* the next request: request.user is a new object, nothing attached
NewUserObject ==
    /\ userObj # NoUserObj
    /\ userObj' = NoUserObj
    /\ inst' = NoInst
    /\ call' = NoCall
    /\ UNCHANGED <<tenantVars, backends, userPerms, groupPerms, memberships,
                   tx>>

\* site_user.is_active = b; site_user.save()
SetActive(b) ==
    /\ inst # NoInst /\ inst.is_active # b
    /\ inst' = [inst EXCEPT !.is_active = b]
    /\ siteUsers' = {IF su.id = inst.id THEN [su EXCEPT !.is_active = b] ELSE su
                        : su \in siteUsers}
    /\ call' = NoCall
    /\ UNCHANGED <<sites, nextSiteId, nextSiteUserId, requestVars, cacheVars,
                   lookup, rootPaths, backends, userPerms, groupPerms,
                   memberships, userObj, tx>>

\* site_user.site_user_permissions.add(p) / .remove(p)
GrantUserPerm(id, p) ==
    /\ \E row \in siteUsers : row.id = id
    /\ p \notin userPerms[id]
    /\ userPerms' = [userPerms EXCEPT ![id] = @ \cup {p}]
    /\ call' = NoCall
    /\ UNCHANGED <<tenantVars, backends, groupPerms, memberships, inst,
                   userObj, tx>>

RevokeUserPerm(id, p) ==
    /\ p \in userPerms[id]
    /\ userPerms' = [userPerms EXCEPT ![id] = @ \ {p}]
    /\ call' = NoCall
    /\ UNCHANGED <<tenantVars, backends, groupPerms, memberships, inst,
                   userObj, tx>>

\* group.permissions.add(p) / .remove(p)
GrantGroupPerm(g, p) ==
    /\ p \notin groupPerms[g]
    /\ groupPerms' = [groupPerms EXCEPT ![g] = @ \cup {p}]
    /\ call' = NoCall
    /\ UNCHANGED <<tenantVars, backends, userPerms, memberships, inst,
                   userObj, tx>>

RevokeGroupPerm(g, p) ==
    /\ p \in groupPerms[g]
    /\ groupPerms' = [groupPerms EXCEPT ![g] = @ \ {p}]
    /\ call' = NoCall
    /\ UNCHANGED <<tenantVars, backends, userPerms, memberships, inst,
                   userObj, tx>>

\* site_user.groups.add(g) / .remove(g)
JoinGroup(id, g) ==
    /\ \E row \in siteUsers : row.id = id
    /\ g \notin memberships[id]
    /\ memberships' = [memberships EXCEPT ![id] = @ \cup {g}]
    /\ call' = NoCall
    /\ UNCHANGED <<tenantVars, backends, userPerms, groupPerms, inst,
                   userObj, tx>>

LeaveGroup(id, g) ==
    /\ g \in memberships[id]
    /\ memberships' = [memberships EXCEPT ![id] = @ \ {g}]
    /\ call' = NoCall
    /\ UNCHANGED <<tenantVars, backends, userPerms, groupPerms, inst,
                   userObj, tx>>

(***************************************************************************)
(* Site.save() of a new site, statement by statement                       *)
(***************************************************************************)
\* no transaction open; outcome tells how the last one ended
NoTx == [phase |-> "idle", hostname |-> "", port |-> NoId, creator |-> "",
         pk |-> NoId, identity |-> FALSE, outcome |-> ""]

Rollback(exc) == [tx EXCEPT !.phase = "idle", !.pk = NoId, !.identity = FALSE,
                            !.outcome = exc]

\* with transaction.atomic(): self.root_page = Page.add_root(title="Root")
SaveBegin(hostname, port, creator) ==
    /\ tx.phase = "idle"
    /\ nextSiteId <= MaxSites
    /\ creator # "" => nextSiteUserId <= MaxSiteUsers
    /\ tx' = [NoTx EXCEPT !.phase = "root", !.hostname = hostname,
                          !.port = port, !.creator = creator]
    /\ UNCHANGED <<tenantVars, authVars>>

\* an INSERT outside any transaction: the row is committed at once
SaveInsertAutocommit ==
    /\ tx.phase = "root"
    /\ IF Unique(tx.hostname, tx.port, NoId)
       THEN /\ tx' = [tx EXCEPT !.phase = "site", !.pk = nextSiteId]
            /\ sites' = sites \cup {[id |-> nextSiteId, hostname |-> tx.hostname,
                                     port |-> tx.port, url_path |-> "/"]}
            /\ StoreChanged
       ELSE /\ tx' = Rollback("IntegrityError")
            /\ UNCHANGED <<sites, lookup, rootPaths>>
    /\ UNCHANGED <<nextSiteId, siteUsers, nextSiteUserId, requestVars,
                   cacheVars, authVars>>

\* super().save(): the INSERT, inside the transaction; unique_together
\* raises IntegrityError, which leaves the atomic block
SaveInsert ==
    /\ tx.phase = "root"
    /\ IF Unique(tx.hostname, tx.port, NoId)
       THEN tx' = [tx EXCEPT !.phase = "site", !.pk = nextSiteId]
       ELSE tx' = Rollback("IntegrityError")
    /\ UNCHANGED <<tenantVars, authVars>>

\* if create_site_user_for and self.pk: create_site_creator(...); fails: the
\* INSERT of the identity raises
SaveCreateSiteCreator(fails) ==
    /\ tx.phase = "site"
    /\ IF tx.creator = "" THEN tx' = [tx EXCEPT !.phase = "created"]
       ELSE IF fails THEN tx' = Rollback("DatabaseError")
       ELSE tx' = [tx EXCEPT !.phase = "created", !.identity = TRUE]
    /\ UNCHANGED <<tenantVars, authVars>>

\* the atomic block is left without exception: COMMIT
SaveCommit ==
    /\ tx.phase = "created"
    /\ sites' = sites \cup {[id |-> tx.pk, hostname |-> tx.hostname,
                             port |-> tx.port, url_path |-> "/"]}
    /\ nextSiteId' = nextSiteId + 1
    /\ IF tx.identity
       THEN /\ siteUsers' = siteUsers \cup {create_site_creator(tx.creator, tx.pk)}
            /\ nextSiteUserId' = nextSiteUserId + 1
       ELSE UNCHANGED <<siteUsers, nextSiteUserId>>
    /\ tx' = [tx EXCEPT !.phase = "idle", !.outcome = "committed"]
    /\ StoreChanged
    /\ UNCHANGED <<requestVars, cacheVars, authVars>>


(***************************************************************************)
(* Specifications                                                          *)
(***************************************************************************)
Init ==
    /\ sites = {}
    /\ nextSiteId = 1
    /\ siteUsers = {}
    /\ nextSiteUserId = 1
    /\ session = [u \in Users |-> NoId]
    /\ sessionBy = [u \in Users |-> ""]
    /\ req = [r \in Requests |-> NewRequestObj("u1", "example.com", 80)]
    /\ modelsSiteUser = "None"
    /\ viewsSiteUser = "unimported"
    /\ rootPathsCache = "unknown"
    /\ prevPaths = NoRootPaths
    /\ lookup = NoLookup
    /\ rootPaths = NoRootPaths
    /\ backends = <<"ModelBackend", "SiteAuthBackend">>
    /\ userPerms = [i \in IdentityIds |-> {}]
    /\ groupPerms = [g \in Groups |-> {}]
    /\ memberships = [i \in IdentityIds |-> {}]
    /\ inst = NoInst
    /\ userObj = NoUserObj
    /\ call = NoCall
    /\ tx = NoTx

\* the resolver over every store the Site table can hold
NextResolver ==
    \/ \E h \in Hostnames, p \in Ports : SiteSaveNew(h, p, "")
    \/ \E id \in SiteIds, h \in Hostnames, p \in Ports : SiteSaveUpdate(id, h, p)
    \/ \E h \in Hostnames, p \in Ports, u \in Users : SiteFormCreate(h, p, u)
    \/ \E id \in SiteIds, h \in Hostnames, p \in Ports : SiteFormUpdate(id, h, p)
    \/ \E id \in SiteIds : SiteDelete(id)
    \/ \E h \in Hostnames, p \in Ports : Resolve(h, p)

SpecResolver == Init /\ [][NextResolver]_vars

\* the root paths of the sites while sites and root pages change
UrlHosts == {"example.com", "other.org"}
UrlPorts == {80, 443, 8000}

NextRootPaths ==
    \/ \E h \in UrlHosts, p \in UrlPorts : SiteSaveNew(h, p, "")
    \/ \E id \in SiteIds, h \in UrlHosts, p \in UrlPorts : SiteSaveUpdate(id, h, p)
    \/ \E id \in SiteIds : SiteDelete(id)
    \/ \E id \in SiteIds, path \in UrlPaths : RootPageSave(id, path)
    \/ \E id \in SiteIds : GetSiteRootPaths(id)
    \/ clear_site_root_paths_cache

SpecRootPaths == Init /\ [][NextRootPaths]_vars

\* requests, sessions and tenant switching over a store of sites and identities
ReqHosts == {"example.com", "other.org"}
ReqPorts == {80}
ReqUsers == {"u1"}

\* tenant and identity resolution on the requests of a worker
Next ==
    \/ \E h \in ReqHosts, p \in ReqPorts, u \in Users : SiteFormCreate(h, p, u)
    \/ \E id \in SiteIds, h \in ReqHosts, p \in ReqPorts : SiteSaveUpdate(id, h, p)
    \/ \E id \in SiteIds : SiteDelete(id)
    \/ \E id \in SiteIds, u \in Users : SiteUserCreate(id, u, TRUE, TRUE)
    \/ \E id \in SiteIds, u \in Users : SiteUserDelete(id, u)
    \/ \E r \in Requests, u \in ReqUsers, h \in ReqHosts, p \in ReqPorts :
         NewRequest(r, u, h, p)
    \/ \E r \in Requests : SiteFindForRequest(r)
    \/ \E r \in Requests : SiteUserFindForRequest(r)
    \/ \E r \in Requests, m \in BOOLEAN : process_request(r, m)

Spec == Init /\ [][Next]_vars

\* tenant switching: the view, the import of its module, identity resolution
NextSwitch ==
    \/ \E h \in ReqHosts, p \in ReqPorts, u \in Users : SiteFormCreate(h, p, u)
    \/ \E id \in SiteIds : SiteDelete(id)
    \/ \E id \in SiteIds, u \in Users : SiteUserCreate(id, u, TRUE, TRUE)
    \/ \E id \in SiteIds, u \in Users : SiteUserDelete(id, u)
    \/ \E r \in Requests, u \in ReqUsers, h \in ReqHosts, p \in ReqPorts :
         NewRequest(r, u, h, p)
    \/ \E r \in Requests : SiteUserFindForRequest(r)
    \/ \E r \in Requests, m \in BOOLEAN : process_request(r, m)
    \/ ImportViews
    \/ \E r \in Requests, id \in SiteIds, referer \in BOOLEAN :
         site_workon_view(r, id, referer)

SpecSwitch == Init /\ [][NextSwitch]_vars

\* tenant resolution, identity resolution and tenant switching on one request
NextPointers ==
    \/ \E h \in ReqHosts, p \in ReqPorts, u \in ReqUsers : SiteFormCreate(h, p, u)
    \/ \E id \in SiteIds, u \in ReqUsers : SiteUserDelete(id, u)
    \/ \E r \in Requests, u \in ReqUsers, h \in ReqHosts, p \in ReqPorts :
         NewRequest(r, u, h, p)
    \/ \E r \in Requests : SiteFindForRequest(r)
    \/ \E r \in Requests : SiteUserFindForRequest(r)
    \/ ImportViews
    \/ \E r \in Requests, id \in SiteIds, referer \in BOOLEAN :
         site_workon_view(r, id, referer)

SpecPointers == Init /\ [][NextPointers]_vars

\* a store with one site per identity, the identities ids, no grant yet,
\* and no request under way
InitIdentities(ids, chains) ==
    /\ sites = {[id |-> i, hostname |-> "example.com", port |-> 8000 + i,
                  url_path |-> "/"] : i \in ids}
    /\ nextSiteId = Cardinality(ids) + 1
    /\ \E f \in [ids -> BOOLEAN \X BOOLEAN] :
          siteUsers = {[id |-> i, site_id |-> i, user |-> "u1",
                        is_active |-> f[i][1], is_superuser |-> f[i][2]]
                          : i \in ids}
    /\ nextSiteUserId = Cardinality(ids) + 1
    /\ session = [u \in Users |-> NoId]
    /\ sessionBy = [u \in Users |-> ""]
    /\ req = [r \in Requests |-> NewRequestObj("u1", "example.com", 80)]
    /\ modelsSiteUser = "None"
    /\ viewsSiteUser = "unimported"
    /\ rootPathsCache = "unknown"
    /\ prevPaths = NoRootPaths
    /\ lookup = NoLookup
    /\ rootPaths = NoRootPaths
    /\ userPerms = [i \in IdentityIds |-> {}]
    /\ groupPerms = [g \in Groups |-> {}]
    /\ memberships = [i \in IdentityIds |-> {}]
    /\ backends \in chains
    /\ inst = NoInst
    /\ userObj = NoUserObj
    /\ call = NoCall
    /\ tx = NoTx

\* permissions of an identity with the shipped backends registered
Grantable(to) == {p \in Permissions : p.pk = IF to = "user" THEN 2 ELSE 1}

NextAuth ==
    \/ LoadIdentity(1)
    \/ \E b \in BOOLEAN : SetActive(b)
    \/ \E p \in Grantable("user") : GrantUserPerm(1, p)
    \/ \E p \in Grantable("user") : RevokeUserPerm(1, p)
    \/ \E g \in Groups, p \in Grantable("group") : GrantGroupPerm(g, p)
    \/ \E g \in Groups, p \in Grantable("group") : RevokeGroupPerm(g, p)
    \/ \E g \in Groups : JoinGroup(1, g)
    \/ \E g \in Groups : LeaveGroup(1, g)
    \/ \E name \in {"site_has_perm", "site_has_module_perms",
                    "get_site_all_permissions"} :
          \E a \in ArgsOf(name) : CallIdentity(name, a)

SpecAuth == InitIdentities({1}, Chains(ShippedKinds)) /\ [][NextAuth]_vars

\* the chain of backends, with backends that grant and that deny

NextChain ==
    \/ LoadIdentity(1)
    \/ \E b \in BOOLEAN : SetActive(b)
    \/ \E p \in Permissions : GrantUserPerm(1, p)
    \/ \E p \in Permissions : RevokeUserPerm(1, p)
    \/ \E name \in {"site_has_perm", "site_has_module_perms"} :
          \E a \in ArgsOf(name) : CallIdentity(name, a)

SpecChain == InitIdentities({1}, Chains(BackendKinds)) /\ [][NextChain]_vars

\* the permission sets of an identity, asked of the identity and of the
\* backend
FromNames == {"user", "group", "all"}

NextPerms ==
    \/ LoadIdentity(1)
    \/ \E b \in BOOLEAN : SetActive(b)
    \/ \E p \in Grantable("user") : GrantUserPerm(1, p)
    \/ \E g \in Groups, p \in Grantable("group") : GrantGroupPerm(g, p)
    \/ \E g \in Groups : JoinGroup(1, g)
    \/ \E from_name \in FromNames, obj \in Objs :
          CallIdentity(PermissionsMethod(from_name),
                       Args(<<>>, obj, <<>>, <<>>, TRUE))
    \/ \E from_name \in FromNames, obj \in Objs : CallBackend(from_name, obj)

SpecPerms == InitIdentities({1}, Chains(ShippedKinds)) /\ [][NextPerms]_vars

\* the overlay on the user object of a request
NextOverlay ==
    \/ AttachIdentity(1)
    \/ NewUserObject
    \/ \E p \in Permissions : GrantUserPerm(1, p)
    \/ \E p \in Permissions : RevokeUserPerm(1, p)
    \/ \E m \in OverlayMethods : \E a \in ArgsOf(OverlayTarget(m)) : OverlayCall(m, a)

SpecOverlay == InitIdentities({1}, {<<"ModelBackend", "SiteAuthBackend">>}) /\ [][NextOverlay]_vars

\* the overlay on a user object whose attached identity is replaced by the
\* identity of another tenant (a switch on the request); permissions are
\* granted and never revoked, so that a permission set computed for an
\* identity stays within what the identity holds
IsolationMethods == {"get_all_permissions", "has_perm", "has_module_perms"}

NextIsolation ==
    \/ \E id \in IdentityIds : AttachIdentity(id)
    \/ NewUserObject
    \/ \E id \in IdentityIds, p \in Permissions : GrantUserPerm(id, p)
    \/ \E m \in IsolationMethods : \E a \in ArgsOf(OverlayTarget(m)) :
          OverlayCall(m, a)

SpecIsolation ==
    InitIdentities(IdentityIds, {<<"ModelBackend", "SiteAuthBackend">>})
       /\ [][NextIsolation]_vars

\* the identities that hold a permission
NextWithPerm ==
    \/ \E i \in IdentityIds, p \in Grantable("user") : GrantUserPerm(i, p)
    \/ \E i \in IdentityIds, p \in Grantable("user") : RevokeUserPerm(i, p)
    \/ \E g \in Groups, p \in Grantable("group") : GrantGroupPerm(g, p)
    \/ \E g \in Groups, p \in Grantable("group") : RevokeGroupPerm(g, p)
    \/ \E i \in IdentityIds, g \in Groups : JoinGroup(i, g)
    \/ \E i \in IdentityIds, g \in Groups : LeaveGroup(i, g)
    \/ \E perm \in WithPermArgs, a \in IsActiveArgs, s \in BOOLEAN, obj \in Objs :
         CallWithPerm(perm, a, s, obj)

SpecWithPerm == InitIdentities(IdentityIds, {<<"ModelBackend", "SiteAuthBackend">>}) /\ [][NextWithPerm]_vars

\* the creation of sites, statement by statement, with readers of the store
NextCreate ==
    \/ \E h \in ReqHosts, p \in Ports, u \in Users \cup {""} : SaveBegin(h, p, u)
    \/ SaveInsert
    \/ \E fails \in BOOLEAN : SaveCreateSiteCreator(fails)
    \/ SaveCommit
    \/ \E id \in SiteIds : SiteDelete(id)
    \/ \E h \in ReqHosts, p \in Ports : Resolve(h, p)

SpecCreate == Init /\ [][NextCreate]_vars

(***************************************************************************)
(* Properties of the resolver (SpecResolver)                               *)
(***************************************************************************)
Resolved == lookup.kind # "none"
SameHost(hostname) == {s \in sites : s.hostname = hostname}

\* C1: (hostname, port) being unique in the store, resolving a tenant's own
\* hostname and port returns that tenant and no other; with two tenants on
\* one hostname, ports 80 and 8000, each of the two queries gets its own.
C1_OwnHostnamePortResolvesToSelf ==
    \A T \in sites :
        (Resolved /\ lookup.hostname = T.hostname /\ lookup.port = T.port)
            => (lookup.kind = "ok" /\ lookup.site = T)

C1_Witness ==
    /\ Resolved /\ lookup.kind = "ok" /\ lookup.port = 80 /\ lookup.site.port = 80
    /\ \E T2 \in sites : T2.hostname = lookup.hostname /\ T2.port = 8000

\* C2: when exactly one tenant has the queried hostname, that tenant is
\* returned for every port, equal to its own or not.
C2_SingleHostnameAnyPort ==
    (Resolved /\ Cardinality(SameHost(lookup.hostname)) = 1)
        => (lookup.kind = "ok" /\ lookup.site \in SameHost(lookup.hostname))

C2_Witness ==
    /\ Resolved /\ Cardinality(SameHost(lookup.hostname)) = 1
    /\ lookup.kind = "ok" /\ lookup.site.port # lookup.port

\* C3: tenants A (example.com, 80) and B (example.com, 8000) and no other on
\* that hostname: port 8000 resolves to B, and port 9999, which nothing
\* matches exactly, resolves to A, the tenant on the default port.
C3_DefaultPortTenantOutranks ==
    (/\ Resolved /\ lookup.hostname = "example.com"
     /\ {s.port : s \in SameHost("example.com")} = {80, 8000})
        => /\ lookup.port = 8000 => (lookup.kind = "ok" /\ lookup.site.port = 8000)
           /\ lookup.port = 9999 => (lookup.kind = "ok" /\ lookup.site.port = 80)

C5_SameQuerySameTenant ==
    [][(/\ Resolved /\ lookup'.kind # "none"
        /\ lookup'.hostname = lookup.hostname /\ lookup'.port = lookup.port)
           => (lookup'.site = lookup.site /\
               (lookup'.warned <=>
                   (/\ Cardinality(SameHost(lookup.hostname)) > 1
                    /\ \A s \in SameHost(lookup.hostname) : s.port # lookup.port)))]_vars

SiteReturned(rq) == rq.ret.op = "Site.find_for_request" /\ rq.ret.kind = "ok"

\* C6: within one request Site._find_for_request runs at most once, however
\* often Site.find_for_request is called, also when the outcome is
\* not-found (the outcome being cached on the request).
C6_LookupAtMostOncePerRequest ==
    \A r \in Requests : req[r].lookups <= 1

\* C6, amended: the lookup runs only in a call made while the request holds
\* no tenant, and a call that ends in Site.DoesNotExist leaves the request
\* without one, so that the next call looks the store up again.
C6_LookupOnlyWhileNoTenantAttached ==
    [][\A r \in Requests :
         /\ req'[r].lookups > req[r].lookups => req[r].wagtail_site.oid = 0
         /\ (req'[r].ret.kind = "Site.DoesNotExist" /\ req'[r] # req[r])
                => (/\ req'[r].lookups = req[r].lookups + 1
                    /\ req'[r].wagtail_site.oid = 0)]_vars

\* the second lookup of a request found the tenant created after the first
C6_Witness ==
    \E r \in Requests :
        /\ req[r].lookups = 2 /\ SiteReturned(req[r]) /\ ~req[r].ret.hit
        /\ req[r].wagtail_site = req[r].ret.site

\* C7: once Site.find_for_request has returned a tenant on a request, every
\* later call on that request returns that very object, whatever happened in
\* between on the request or on the store.
C7_AlwaysTheFirstTenantObject ==
    \A r \in Requests :
        SiteReturned(req[r]) => req[r].ret.site.oid = req[r].first_site

\* C7, amended: a call returns the object the request holds, and the object
\* the request holds is replaced by nothing but set_current_session_project
\* (identity resolution attaching an identity, a tenant switch), which puts
\* the identity's tenant object in its place; changes of the store never
\* replace it.
C7_SameObjectUntilIdentityAttached ==
    [][\A r \in Requests :
         /\ SiteReturned(req'[r]) => req'[r].ret.site = req'[r].wagtail_site
         /\ (req[r].wagtail_site.oid # 0 /\ req'[r].wagtail_site # req[r].wagtail_site)
                => \/ req'[r].ret.op = "new"
                   \/ /\ req'[r].ret.op \in {"SiteUser.find_for_request",
                                             "site_workon_view"}
                      /\ req'[r].site_user.oid # req[r].site_user.oid
                      /\ req'[r].wagtail_site = req'[r].site_user.site]_vars

\* a later call answered from the request, with the object of the first
\* call, after the tenant's row was changed or deleted in the store
C7_Witness ==
    \E r \in Requests :
        /\ SiteReturned(req[r]) /\ req[r].ret.hit
        /\ req[r].site_user.oid = 0
        /\ req[r].ret.site.oid = req[r].first_site
        /\ ~\E s \in sites : s.id = req[r].ret.site.id
                             /\ s.hostname = req[r].ret.site.hostname

(***************************************************************************)
(* Properties of tenant switching (SpecSwitch)                             *)
(***************************************************************************)
WorkonStep(r) ==
    req'[r].ret.op = "site_workon_view" /\ req'[r] # req[r]

\* C9: site_workon_view(request, T) without an identity for (T, user) adds
\* the error message, lets no exception reach the caller, and leaves the
\* session's site_id, request.user.site_user and the request's tenant as
\* they were.
C9_FailedSwitchReportsAndKeepsState ==
    [][\A r \in Requests :
         (WorkonStep(r) /\ SiteUserRows(req'[r].ret.arg, req[r].user) = {})
            => /\ req'[r].ret.kind = "ok"
               /\ req'[r].ret.msg = "error"
               /\ session' = session
               /\ req'[r].site_user = req[r].site_user
               /\ req'[r].wagtail_site = req[r].wagtail_site]_vars

FindStep(r) ==
    /\ req'[r].ret.op = "SiteUser.find_for_request"
    /\ (req'[r] # req[r] \/ session' # session)

\* C11: AbstractSiteUser.find_for_request returns an identity only if the
\* store holds an identity for (session tenant id, user) when it is called,
\* and otherwise fails with SiteUser.DoesNotExist and with nothing else, a
\* stale session pointer and an empty session of a user without any identity
\* included.
C11_FailsOnlyWithIdentityNotFound ==
    [][\A r \in Requests :
         FindStep(r) =>
            LET u == req[r].user
                b == req'[r]
            IN /\ b.ret.kind \in {"ok", "SiteUser.DoesNotExist"}
               /\ b.ret.kind = "ok" <=> SiteUserRows(session'[u], u) # {}]_vars

\* C12: with no tenant id in the session, find_for_request takes the tenant
\* of the user's most recently created identity, writes it into the session
\* and returns the identity for it; with a tenant id in the session for
\* which the user has an identity, the session is left as it is and that
\* tenant's identity is returned.
C12_DefaultsToLatestIdentity ==
    [][\A r \in Requests :
         FindStep(r) =>
            LET u == req[r].user
                b == req'[r]
                all == UserSiteUsers(u)
            IN /\ (session[u] = NoId /\ all # {}) =>
                    \E I \in all :
                        /\ \A o \in all : o.id <= I.id
                        /\ session'[u] = I.site_id
                        /\ b.ret.kind = "ok"
                        /\ b.ret.site_user.site_id = I.site_id
                        /\ b.ret.site_user.user = u
                        /\ b.site_user = b.ret.site_user
               /\ (session[u] # NoId /\ SiteUserRows(session[u], u) # {}) =>
                    /\ session' = session
                    /\ b.ret.kind = "ok"
                    /\ b.ret.site_user.site_id = session[u]
                    /\ b.ret.site_user.user = u
                    /\ b.site_user = b.ret.site_user]_vars

\* the session was empty and the user held identities in two tenants: the
\* call chose the tenant of the later one and returned its identity
C12_Witness ==
    \E r \in Requests :
        LET rq == req[r]
            all == UserSiteUsers(rq.user)
        IN /\ rq.ret.op = "SiteUser.find_for_request" /\ rq.ret.kind = "ok"
           /\ ~rq.ret.hit
           /\ sessionBy[rq.user] = "default"
           /\ Cardinality({I.site_id : I \in all}) = 2
           /\ \A o \in all : o.id <= rq.ret.site_user.id
           /\ session[rq.user] = rq.ret.site_user.site_id

(***************************************************************************)
(* Properties of the permission checks of an identity (SpecAuth)           *)
(***************************************************************************)
\* C13: with the shipped backends registered, site_has_perm answers true for
\* every permission string when the identity is an active superuser, and
\* false for every permission string when is_active is false, whatever
\* is_superuser, the grants and the caches of the instance are.
C13_SuperuserAndInactive ==
    inst # NoInst =>
        \A perm \in PermArgs, obj \in Objs :
            LET r == site_has_perm(inst, perm, obj)
            IN /\ r.exc = ""
               /\ (inst.is_active /\ inst.is_superuser) => r.ok
               /\ ~inst.is_active => ~r.ok

\* an inactive superuser whose instance still carries a cache with the
\* permission asked for was refused
C13_Witness ==
    /\ call.op = "site_has_perm" /\ call.via = "identity"
    /\ ~call.before.is_active /\ call.before.is_superuser
    /\ call.before.perm_cache.set
    /\ call.args.perm \in call.before.perm_cache.perms
    /\ call.args.perm \in {PermString(p) : p \in userPerms[call.before.id]}
    /\ ~call.ok /\ call.exc = ""

(***************************************************************************)
(* Properties of the chain of backends (SpecChain)                         *)
(***************************************************************************)
\* what backend i of the chain tells about a permission of the instance su:
\* "grant", "deny" (PermissionDenied) or "none" (no capability, or a false)
PermSignal(i, su, perm, obj) ==
    IF ~HasAttr(backends[i], "has_site_perm") THEN "none"
    ELSE IF BackendHasSitePerm(backends[i], su, perm, obj).exc # "" THEN "deny"
    ELSE IF BackendHasSitePerm(backends[i], su, perm, obj).ok THEN "grant"
    ELSE "none"

ModuleSignal(i, su, app_label) ==
    IF ~HasAttr(backends[i], "has_module_site_perms") THEN "none"
    ELSE IF BackendHasModuleSitePerms(backends[i], su, app_label).exc # ""
    THEN "deny"
    ELSE IF BackendHasModuleSitePerms(backends[i], su, app_label).ok THEN "grant"
    ELSE "none"

\* the first signal of a chain is a grant: some backend grants and none
\* before it grants or denies
FirstSignalGrants(signal) ==
    \E i \in DOMAIN signal :
        /\ signal[i] = "grant"
        /\ \A j \in 1..(i - 1) : signal[j] = "none"

\* C14: for an identity that is not an active superuser, site_has_perm and
\* site_has_module_perms ask the registered backends in registration order,
\* skipping those without the capability: the answer is true if the first
\* backend that gives a signal grants, false if it raises PermissionDenied,
\* false if no backend gives a signal; the denial never leaves the call.
C14_FirstSignalDecides ==
    (inst # NoInst /\ ~(inst.is_active /\ inst.is_superuser)) =>
        /\ \A perm \in PermArgs, obj \in Objs :
              /\ site_has_perm(inst, perm, obj).exc = ""
              /\ site_has_perm(inst, perm, obj).ok =
                    FirstSignalGrants([i \in 1..Len(backends) |->
                                          PermSignal(i, inst, perm, obj)])
        /\ \A app_label \in AppLabels :
              /\ site_has_module_perms(inst, app_label).exc = ""
              /\ site_has_module_perms(inst, app_label).ok =
                    FirstSignalGrants([i \in 1..Len(backends) |->
                                          ModuleSignal(i, inst, app_label)])

\* a backend that denies stands before one that grants: the call answered
\* false and raised nothing
C14_Witness ==
    /\ call.op = "site_has_perm" /\ call.via = "identity"
    /\ ~(call.before.is_active /\ call.before.is_superuser)
    /\ \E i, j \in 1..Len(backends) :
          /\ i < j
          /\ PermSignal(i, call.before, call.args.perm, call.args.obj) = "deny"
          /\ PermSignal(j, call.before, call.args.perm, call.args.obj) = "grant"
    /\ ~call.ok /\ call.exc = ""

(***************************************************************************)
(* Properties of the permission caches of an instance (SpecAuth)           *)
(***************************************************************************)
\* the permission strings of the grants the store holds for an identity,
\* direct ones and those of its groups
CurrentGrants(id) ==
    {PermString(p) : p \in userPerms[id] \cup
                           UNION {groupPerms[g] : g \in memberships[id]}}

\* the instance is as SiteUser.objects.get() built it
FreshlyLoaded(su) == \E row \in siteUsers : su = SiteUserInst(row)

\* SiteAuthBackend is one of the registered backends
SiteAuthRegistered == \E i \in 1..Len(backends) : backends[i] = "SiteAuthBackend"

\* C15: two consecutive object-less get_site_all_permissions() calls on the
\* same active instance return the identical set and the second one runs no
\* query, even if the direct or group grants of the identity were changed in
\* the store in between; a freshly loaded instance queries the store again
\* and returns the current grants.
C15_CachedPerInstance ==
    (inst # NoInst /\ inst.is_active /\ SiteAuthRegistered) =>
        /\ inst.asked.set =>
              /\ get_site_all_permissions(inst, NoObj).perms = inst.asked.perms
              /\ get_site_all_permissions(inst, NoObj).q = 0
        /\ FreshlyLoaded(inst) =>
              /\ get_site_all_permissions(inst, NoObj).perms = CurrentGrants(inst.id)
              /\ get_site_all_permissions(inst, NoObj).q > 0

(***************************************************************************)
(* Properties of site_has_module_perms (SpecAuth)                          *)
(***************************************************************************)
\* the string begins with app_label followed by "."
BeginsWith(perm, app_label) ==
    /\ Len(perm) > Len(app_label)
    /\ \A k \in 1..Len(app_label) : perm[k] = app_label[k]
    /\ perm[Len(app_label) + 1] = Dot

\* C16: site_has_module_perms(app_label) is true if the identity is an active
\* superuser; otherwise it is true exactly when the identity is active and
\* at least one permission string of its permission set begins with
\* app_label followed by "."; it is false for an inactive identity.
C16_ModulePerms ==
    inst # NoInst =>
        \A app_label \in AppLabels :
            /\ site_has_module_perms(inst, app_label).exc = ""
            /\ site_has_module_perms(inst, app_label).ok =
                  \/ inst.is_active /\ inst.is_superuser
                  \/ /\ inst.is_active
                     /\ \E perm \in get_site_all_permissions(inst, NoObj).perms :
                           BeginsWith(perm, app_label)

\* an active identity that is no superuser holds ab.x only: the module a was
\* asked for and refused, although "ab.x" begins with "a"
C16_Witness ==
    /\ call.op = "site_has_module_perms" /\ call.via = "identity"
    /\ call.before.is_active /\ ~call.before.is_superuser
    /\ SiteAuthRegistered
    /\ call.args.app_label = <<"a">>
    /\ get_site_all_permissions(call.before, NoObj).perms = {<<"a", "b", Dot, "x">>}
    /\ ~call.ok /\ call.exc = ""

(***************************************************************************)
(* Properties of SiteAuthBackend.site_with_perm (SpecWithPerm)             *)
(***************************************************************************)
\* perm is a Permission, or a str of the form "app_label.codename"
WellFormed(perm) ==
    \/ perm.type = "Permission"
    \/ /\ perm.type = "str"
       /\ Cardinality(Dots(perm.chars)) = 1

\* the identity holds perm by a direct grant or through one of its groups
Holds(su, perm) ==
    \E p \in userPerms[su.id] \cup UNION {groupPerms[g] : g \in memberships[su.id]} :
        IF perm.type = "Permission" THEN p.pk = perm.pk
        ELSE PermString(p) = perm.chars

\* C17: for obj = None and a well-formed perm, site_with_perm returns exactly
\* the identities that hold perm by a direct grant or through one of their
\* groups, plus the superusers when include_superusers is true, the whole
\* restricted to the identities whose is_active equals the is_active
\* argument unless that argument is None; for any other obj it returns none.
C17_IdentitiesWithPerm ==
    (call.op = "site_with_perm" /\ WellFormed(call.parg)) =>
        /\ call.exc = ""
        /\ call.ids =
              IF call.args.obj # NoObj THEN {}
              ELSE {su.id : su \in
                      {s \in siteUsers :
                          /\ \/ Holds(s, call.parg)
                             \/ call.include_superusers /\ s.is_superuser
                          /\ \/ call.is_active = "None"
                             \/ call.is_active = "True" /\ s.is_active
                             \/ call.is_active = "False" /\ ~s.is_active}}

\* the active identities with a.x were asked for, superusers included: the
\* answer is the one identity that holds a.x through its group, without the
\* other one, an inactive superuser
C17_Witness ==
    /\ call.op = "site_with_perm" /\ call.exc = ""
    /\ call.parg = PermArg("str", <<"a", Dot, "x">>, NoId)
    /\ call.is_active = "True" /\ call.include_superusers
    /\ call.args.obj = NoObj
    /\ \E s, t \in siteUsers :
          /\ s.is_active /\ ~s.is_superuser
          /\ userPerms[s.id] = {} /\ memberships[s.id] # {}
          /\ ~t.is_active /\ t.is_superuser
          /\ call.ids = {s.id}

\* C18: site_with_perm raises an input error and returns nothing whenever
\* perm is a str that does not split on "." into exactly two parts, or is
\* neither a str nor a Permission, whatever is_active, include_superusers
\* and obj are.
C18_InputErrors ==
    (call.op = "site_with_perm" /\ ~WellFormed(call.parg)) =>
        /\ call.exc = IF call.parg.type = "str" THEN "ValueError" ELSE "TypeError"
        /\ call.ids = {}

\* a str with two dots was given together with an object: the call raised
C18_Witness ==
    /\ call.op = "site_with_perm"
    /\ call.parg = PermArg("str", <<"a", Dot, "x", Dot, "y">>, NoId)
    /\ call.args.obj # NoObj
    /\ call.exc = "ValueError" /\ call.ids = {}

(***************************************************************************)
(* Properties of the overlay on the user object (SpecOverlay)              *)
(***************************************************************************)
\* the tenant-scoped method of the identity that answers an overlay method
TenantScoped(method) ==
    CASE method = "get_user_permissions" -> "get_site_user_permissions"
      [] method = "get_group_permissions" -> "get_site_group_permissions"
      [] method = "get_all_permissions" -> "get_site_all_permissions"
      [] method = "has_perm" -> "site_has_perm"
      [] method = "has_perms" -> "site_has_perms"
      [] OTHER -> "site_has_module_perms"

\* the recorded call ended as r does: same exception, same value returned
SameOutcome(c, r) == c.exc = r.exc /\ c.ok = r.ok /\ c.perms = r.perms

\* C19: each overlay method of SitePermissionsMonkeyPatchMixin, called on a
\* user object that carries a site_user, returns exactly what the
\* tenant-scoped method of that identity returns for the same arguments;
\* called on a user object without site_user, it returns what the default
\* implementation returns.
C19_OverlayDelegates ==
    call.op \in OverlayMethods =>
        IF call.before # NoInst
        THEN /\ call.via = "overlay"
             /\ SameOutcome(call, Invoke(TenantScoped(call.op), call.before, call.args))
        ELSE call.via = "default" /\ call.exc = ""

(***************************************************************************)
(* Properties of the creation of a site (SpecCreate)                       *)
(***************************************************************************)
\* C20: the creation of a site through Site.save(create_site_user_for=u) is
\* atomic with the creation of the identity of u in it: a site that becomes
\* visible in the store comes, in the same step, with an identity (site, u)
\* that is active and superuser; while save() is under way nothing of it is
\* in the store; and when the creation of the identity fails, neither the
\* site (with its root page) nor an identity is persisted.
C20_SiteCreatedWithIdentity ==
    [][/\ \A s \in sites' \ sites :
             tx.creator # "" =>
                \E su \in siteUsers' \ siteUsers :
                    /\ su.site_id = s.id /\ su.user = tx.creator
                    /\ su.is_active /\ su.is_superuser
       /\ tx'.phase # "idle" =>
             /\ sites' \subseteq sites /\ siteUsers' \subseteq siteUsers
             /\ \A s \in sites' : s.id # tx'.pk
       /\ (tx.phase # "idle" /\ tx'.phase = "idle" /\ tx'.outcome # "committed") =>
             /\ sites' = sites /\ siteUsers' = siteUsers
             /\ nextSiteId' = nextSiteId]_vars

\* a save() on behalf of a user failed at the creation of the identity, after
\* the site row had been inserted: the store holds no site of that hostname
\* and port and no identity of a site that is not there
C20_Witness ==
    /\ tx.phase = "idle" /\ tx.outcome = "DatabaseError" /\ tx.creator # ""
    /\ \A s \in sites : ~(s.hostname = tx.hostname /\ s.port = tx.port)
    /\ \A su \in siteUsers : \E s \in sites : s.id = su.site_id
    /\ \E s \in sites, su \in siteUsers :
          su.site_id = s.id /\ su.is_active /\ su.is_superuser


(***************************************************************************)
(* Properties of the session pointer and of the per-request identity       *)
(* (Spec, SpecSwitch)                                                      *)
(***************************************************************************)
\* the session of the request's user names a tenant in which the user holds
\* no identity (any more)
StalePointer(r) ==
    LET u == req[r].user
    IN session[u] # NoId /\ SiteUserRows(session[u], u) = {}

\* C21: a stale session pointer never fails a request: when
\* SiteUserMiddleware.process_request runs find_for_request on a session
\* whose tenant id names no identity of the user, the failure is handled,
\* the request is served with an identity (or without one), and the session
\* no longer holds the stale pointer, so later requests are served too.
C21_StalePointerHandled ==
    [][\A r \in Requests :
         (FindStep(r) /\ StalePointer(r)) =>
            /\ req'[r].ret.kind = "ok"
            /\ ~StalePointer(r)']_vars


\* an identity is attached to the request's user and the session pointer
\* is the one it was attached under
IdentityAttached(r) ==
    /\ req[r].site_user.oid # 0
    /\ session[req[r].user] = req[r].site_user.site_id

\* C22: within one request whose session pointer is unchanged, a call of
\* AbstractSiteUser.find_for_request made after an earlier call attached
\* an identity returns that very object from the request, without
\* depending on the store: it succeeds with the same object even when the
\* identity's record was deleted in between.
C22_SecondCallReturnsAttached ==
    [][\A r \in Requests :
         (FindStep(r) /\ IdentityAttached(r)) =>
            /\ req'[r].ret.kind = "ok"
            /\ req'[r].ret.site_user = req[r].site_user
            /\ req'[r].site_user = req[r].site_user]_vars


(***************************************************************************)
(* Properties of the permission sets of an identity (SpecPerms)            *)
(***************************************************************************)
\* the names of the three permission-set methods
PermissionsMethods == {PermissionsMethod(from_name) : from_name \in FromNames}

\* the positions of the chain whose backend has the method
Supporting(name) == {i \in 1..Len(backends) : HasAttr(backends[i], name)}

\* C23: _site_user_get_permissions aggregates by union: what
\* get_site_user_permissions, get_site_group_permissions and
\* get_site_all_permissions of an identity return is exactly the union of
\* what each registered backend that has the method of that name returns
\* for the identity; backends without the method contribute nothing, and
\* with no backend having it the result is empty.
C23_UnionOverBackends ==
    [][\A from_name \in FromNames :
         (/\ call'.op = PermissionsMethod(from_name)
          /\ call'.via = "identity"
          /\ call' # call) =>
            /\ call'.perms =
                  UNION {BackendGetPermissions(backends[i], inst, call'.args.obj,
                                               from_name).perms :
                            i \in Supporting(call'.op)}
            /\ call'.exc = ""
            /\ Supporting(call'.op) = {} => call'.perms = {}]_vars

\* a set asked of a chain of two backends that have the method, one
\* answering with permissions and the other with none: the union is returned
C23_Witness ==
    /\ call.via = "identity"
    /\ call.op \in PermissionsMethods
    /\ Len(backends) = 2
    /\ backends[1] = "SiteAuthBackend" /\ backends[2] = "BaseSiteAuthBackend"
    /\ call.perms # {}


\* C24: SiteAuthBackend.get_site_user_permissions,
\* get_site_group_permissions and get_site_all_permissions called with an
\* object neither read nor create nor change a cache attribute of the
\* identity instance, run no query, and return a result (the empty set)
\* that does not depend on what the caches hold.
C24_ObjectQueriesBypassCache ==
    [][(/\ call'.via = "backend"
        /\ call'.op \in PermissionsMethods
        /\ call'.args.obj # NoObj
        /\ call' # call) =>
           /\ inst' = inst
           /\ call'.perms = {}
           /\ call'.q = 0
           /\ call'.exc = ""]_vars

\* the backend was asked for the user permissions on an object of an
\* active instance whose cache of that kind held permissions, and the
\* instance is as it was
C24_Witness ==
    /\ call.via = "backend"
    /\ call.op = "get_site_user_permissions"
    /\ call.args.obj # NoObj
    /\ call.before.is_active
    /\ call.before.user_perm_cache.set
    /\ call.before.user_perm_cache.perms # {}
    /\ inst = call.before


(***************************************************************************)
(* Properties of stored hostnames and of the root paths cache              *)
(* (SpecResolver, SpecRootPaths)                                           *)
(***************************************************************************)
\* C25: hostnames are case-normalized: after any sequence of creations and
\* updates through Site.save every stored hostname is lowercase, and
\* get_site_for_hostname gives the same outcomes for (hostname, port) as
\* for (the lowercase form of hostname, port).
C25_HostnamesCaseNormalized ==
    /\ \A s \in sites : s.hostname = Lower(s.hostname)
    /\ \A hostname \in Hostnames, port \in Ports :
          get_site_for_hostname(hostname, port)
             = get_site_for_hostname(Lower(hostname), port)


\* C26: root paths are served from the process-wide cache: a call of
\* get_site_root_paths on a tenant that follows an earlier call on it, with
\* no clear_site_root_paths_cache() in between, returns what the earlier
\* call returned, even if the tenant or its root page changed in between.
C26_RootPathsServedFromCache ==
    [][(/\ rootPaths' # rootPaths
        /\ rootPaths'.site_id # NoId
        /\ prevPaths.site_id = rootPaths'.site_id) =>
           rootPaths'.paths = prevPaths.paths]_vars


(***************************************************************************)
(* Properties of the permission set of a superuser (SpecAuth)              *)
(***************************************************************************)
\* C27: for an active superuser identity the permission caches are filled
\* from a query of all permissions, not of the identity's grants: with
\* SiteAuthBackend registered, get_site_all_permissions() of the identity
\* contains every permission that exists, held by the identity or not, and
\* so contains every permission string for which site_has_perm is true.
C27_SuperuserSetHoldsEveryPermission ==
    (inst # NoInst /\ inst.is_active /\ inst.is_superuser /\ SiteAuthRegistered) =>
        /\ \A p \in Permissions :
              PermString(p) \in get_site_all_permissions(inst, NoObj).perms
        /\ \A perm \in PermArgs :
              site_has_perm(inst, perm, NoObj).ok =>
                 perm \in get_site_all_permissions(inst, NoObj).perms


(***************************************************************************)
(* Properties of the pointers of a request (SpecPointers)                  *)
(***************************************************************************)
\* C28: when AbstractSiteUser.find_for_request has returned an identity on
\* a request, or site_workon_view has switched the tenant on it, the
\* session's site_id, the site_id of request.user.site_user and the id of
\* request._wagtail_site are the same tenant, and the attached identity is
\* one of request.user; this after any sequence of tenant resolutions,
\* identity resolutions and switches.
C28_PointersAgree ==
    [][\A r \in Requests :
         LET b == req'[r]
             u == req[r].user
         IN (\/ FindStep(r) /\ b.ret.kind = "ok"
             \/ WorkonStep(r) /\ b.ret.msg = "success") =>
               /\ b.site_user.oid # 0
               /\ session'[u] = b.site_user.site_id
               /\ b.wagtail_site.id = b.site_user.site_id
               /\ b.site_user.user = u]_vars

\* the tenant of the request was resolved from its host first, then the
\* user switched to another tenant on the request, and the identity
\* resolved afterwards is the attached one
C28_Witness ==
    \E r \in Requests :
        LET rq == req[r] IN
        /\ rq.ret.op = "SiteUser.find_for_request" /\ rq.ret.kind = "ok"
        /\ rq.ret.hit
        /\ sessionBy[rq.user] = "switch"
        /\ rq.first_site # NoId
        /\ rq.first_site # rq.wagtail_site.oid


(***************************************************************************)
(* Properties of the overlay across tenants (SpecIsolation)                *)
(***************************************************************************)
\* C29: the overlay's cache round trip keeps tenants apart: the cache values
\* cache() copies onto the attached identity were computed for that
\* identity, so that after the attached identity was replaced by the
\* identity of another tenant, get_all_permissions, has_perm and
\* has_module_perms on the user answer from the permissions of the attached
\* identity and never from the permission set of the identity attached
\* before.
C29_OverlayAnswersForAttachedIdentity ==
    (/\ call.via = "overlay" /\ call.op \in IsolationMethods
     /\ call.exc = "" /\ call.before.is_active) =>
        LET held == CurrentGrants(call.before.id) IN
        /\ (call.op = "get_all_permissions" /\ call.args.obj = NoObj) =>
              call.perms \subseteq held
        /\ (call.op = "has_perm" /\ call.ok /\ ~call.before.is_superuser) =>
              call.args.perm \in held
        /\ (call.op = "has_module_perms" /\ call.ok /\ ~call.before.is_superuser) =>
              \E perm \in held : BeginsWith(perm, call.args.app_label)


(***************************************************************************)
(* site_with_perm against site_has_perm (SpecWithPerm)                     *)
(***************************************************************************)
\* C30: with SiteAuthBackend the only registered backend that answers for
\* identities, site_with_perm(perm, is_active=True, include_superusers=True)
\* for a well-formed perm string returns exactly the identities whose
\* freshly loaded instance answers site_has_perm(perm) with True, whatever
\* the store holds.
C30_WithPermAgreesWithHasPerm ==
    (/\ call.op = "site_with_perm"
     /\ call.parg.type = "str" /\ WellFormed(call.parg)
     /\ call.is_active = "True" /\ call.include_superusers
     /\ call.args.obj = NoObj) =>
        /\ call.exc = ""
        /\ \A row \in siteUsers :
              row.id \in call.ids
                 <=> site_has_perm(SiteUserInst(row), call.parg.chars, NoObj).ok

\* the identities with ab.x were asked for: the answer has the active
\* superuser, who holds nothing, and not the inactive identity that holds
\* ab.x directly
C30_Witness ==
    /\ call.op = "site_with_perm" /\ call.exc = ""
    /\ call.parg = PermArg("str", <<"a", "b", Dot, "x">>, NoId)
    /\ call.is_active = "True" /\ call.include_superusers
    /\ call.args.obj = NoObj
    /\ \E s, t \in siteUsers :
          /\ s.is_active /\ s.is_superuser
          /\ userPerms[s.id] = {} /\ memberships[s.id] = {}
          /\ ~t.is_active /\ userPerms[t.id] # {}
          /\ call.ids = {s.id}
          /\ site_has_perm(SiteUserInst(s), call.parg.chars, NoObj).ok
          /\ ~site_has_perm(SiteUserInst(t), call.parg.chars, NoObj).ok

==========================================================================
